---- MODULE Spec2Model ----
(***************************************************************************)
(* Model of the procedural tuxedo cat: CatModel (src/cat-model.js) and the *)
(* CatViewer that drives it (src/README.md, lines 79-321).                 *)
(*                                                                         *)
(* Numbers: every length, angle and scale factor of the source is kept as  *)
(* a fixed-point integer with four decimals (0.8 is 8000, 1.25 is 12500).  *)
(* Time advances in ticks of pi/12 seconds, angles are counted in steps of *)
(* pi/24, so that time*2, time*1.5 and time*1 are whole steps.             *)
(*                                                                         *)
(* Objects: materials and transforms live in heaps (sequences indexed by   *)
(* an object id), a mesh holds the ids of its material and its transform,  *)
(* so that sharing and copying are distinguishable.                        *)
(***************************************************************************)
EXTENDS Integers, Sequences, FiniteSets, TLC

\* ------------------------------------------------------------------ bounds
\* Elapsed times offered to animateIdle are -MaxT..MaxT ticks.
MaxT == 3
\* The viewer's frame clock runs from 0 to MaxClock ticks.
MaxClock == 4
\* createSplineTube is tried on sequences of 0 to MaxPoints control points.
MaxPoints == 3

\* --------------------------------------------------------------- numbers
\* Fixed-point unit: the integer that stands for 1.0.
One == 100 * 100

\* Product of two fixed-point numbers, rounded toward zero.
Mul(a, b) ==
    IF a * b >= 0 THEN (a * b) \div One ELSE -((-(a * b)) \div One)

\* sin(k*pi/24) for k = 0..12, four decimals.
SinTab == <<0, 1305, 2588, 3827, 5000, 6088, 7071, 7934, 8660, 9239, 9659, 9914, 10000>>

\* Math.sin at the angle k*pi/24, any integer k.
Sin(k) ==
    LET m == k % 48
    IN  IF m = 0 THEN 0
        ELSE IF m <= 12 THEN SinTab[m + 1]
        ELSE IF m <= 24 THEN SinTab[24 - m + 1]
        ELSE IF m <= 36 THEN -SinTab[m - 24 + 1]
        ELSE -SinTab[48 - m + 1]

\* Math.cos at the angle k*pi/24.
Cos(k) == Sin(k + 12)

\* Color.setHex: the three 8-bit channels of a 24-bit hex value.
SetHex(hex) ==
    [r |-> (hex \div 65536) % 256, g |-> (hex \div 256) % 256, b |-> hex % 256]

\* Color.getHex: the hex value of three channels.
GetHex(c) == c.r * 65536 + c.g * 256 + c.b

\* ------------------------------------------------------- object helpers
\* new THREE.Group() with no materials yet: the object at the start of the constructor.
EmptyCat ==
    [mesh |-> << >>, xforms |-> << >>, mats |-> << >>, materials |-> << >>,
     group |-> << >>, body |-> "undefined", tail |-> "undefined"]

\* new THREE.MeshStandardMaterial / LineBasicMaterial({color: hex}): a fresh material object.
NewMaterial(w, hex) ==
    [w EXCEPT !.mats = Append(@, [color |-> SetHex(hex), wireframe |-> FALSE,
                                  normalMap |-> FALSE])]

\* new THREE.Mesh(geometry, material): a fresh object with its own identity transform.
NewMesh(w, name, geom, mat) ==
    [w EXCEPT
        !.xforms = Append(@, [position |-> <<0, 0, 0>>, rotation |-> <<0, 0, 0>>,
                              scale |-> <<One, One, One>>]),
        !.mesh = (name :> [geometry |-> geom, material |-> mat,
                           xform |-> Len(w.xforms) + 1]) @@ @]

\* Variant of clone() that also duplicates the material (a deep copy).
CloneOwnMaterial(w, src, dst) ==
    [w EXCEPT
        !.xforms = Append(@, w.xforms[w.mesh[src].xform]),
        !.mats = Append(@, w.mats[w.mesh[src].material]),
        !.mesh = (dst :> [geometry |-> w.mesh[src].geometry,
                          material |-> Len(w.mats) + 1,
                          xform |-> Len(w.xforms) + 1]) @@ @]

\* Variant of clone() that keeps the source's transform object (a shallow copy).
CloneSharedTransform(w, src, dst) ==
    [w EXCEPT
        !.mesh = (dst :> [geometry |-> w.mesh[src].geometry,
                          material |-> w.mesh[src].material,
                          xform |-> w.mesh[src].xform]) @@ @]

\* mesh.clone(): a fresh object whose transform is a copy of the source's values;
\* geometry and material are the source's (shared).
Clone(w, src, dst) ==
    [w EXCEPT
        !.xforms = Append(@, w.xforms[w.mesh[src].xform]),
        !.mesh = (dst :> [geometry |-> w.mesh[src].geometry,
                          material |-> w.mesh[src].material,
                          xform |-> Len(w.xforms) + 1]) @@ @]

\* mesh.position.set(x, y, z)
PositionSet(w, name, x, y, z) ==
    [w EXCEPT !.xforms[w.mesh[name].xform].position = <<x, y, z>>]

\* mesh.scale.set(x, y, z)
ScaleSet(w, name, x, y, z) ==
    [w EXCEPT !.xforms[w.mesh[name].xform].scale = <<x, y, z>>]

\* mesh.rotation.x / .y / .z = v   (axis 1, 2, 3)
RotationSet(w, name, axis, v) ==
    [w EXCEPT !.xforms[w.mesh[name].xform].rotation[axis] = v]

\* this.group.add(mesh)
GroupAdd(w, name) == [w EXCEPT !.group = Append(@, name)]

\* Reading a mesh's transform and material.
Xf(w, name) == w.xforms[w.mesh[name].xform]
Mat(w, name) == w.mats[w.mesh[name].material]

\* ---------------------------------------------------------- construction
\* createMaterials: six fresh materials, one per role, returned as this.materials.
CreateMaterials(w) ==
    LET w1 == NewMaterial(w, 1710618)      \* blackFurMaterial 0x1a1a1a
        w2 == NewMaterial(w1, 16777215)    \* whiteFurMaterial 0xffffff
        w3 == NewMaterial(w2, 16766720)    \* eyeMaterial      0xffd700
        w4 == NewMaterial(w3, 16758465)    \* noseMaterial     0xffb6c1
        w5 == NewMaterial(w4, 16758465)    \* innerEarMaterial 0xffb6c1
        w6 == NewMaterial(w5, 14540253)    \* whiskerMaterial  0xdddddd
    IN  [w6 EXCEPT !.materials =
            [blackFurMaterial |-> Len(w.mats) + 1, whiteFurMaterial |-> Len(w.mats) + 2,
             eyeMaterial |-> Len(w.mats) + 3, noseMaterial |-> Len(w.mats) + 4,
             innerEarMaterial |-> Len(w.mats) + 5, whiskerMaterial |-> Len(w.mats) + 6]]

\* createSplineTube: the tube geometry swept along the curve through the points. The
\* method hands the points to CatmullRomCurve3 and TubeGeometry as they are, with no
\* check of their number and no substitute: the sweep samples the curve from its first
\* point, which reads points[0] and points[1], and dereferencing a missing one throws
\* (error). Repeated or collinear points give a curve, hence a geometry.
CreateSplineTube(points, radius) ==
    [curve |-> points, radius |-> radius, error |-> Len(points) < 2]

\* createBody: the body (black) and the chest patch (white).
CreateBody(w) ==
    LET w1 == NewMesh(w, "body", "bodyGeometry", w.materials.blackFurMaterial)
        w2 == ScaleSet(w1, "body", 8500, 8000, 13000)
        w3 == PositionSet(w2, "body", 0, 6000, 1000)
        w4 == [GroupAdd(w3, "body") EXCEPT !.body = "body"]
        w5 == NewMesh(w4, "chest", "chestGeometry", w.materials.whiteFurMaterial)
        w6 == ScaleSet(w5, "chest", 7000, 8000, 5000)
        w7 == PositionSet(w6, "chest", 0, 5000, 5500)
        w8 == RotationSet(w7, "chest", 1, -7854)
    IN  GroupAdd(w8, "chest")

\* createHead: head (black), snout and forehead blaze (white).
CreateHead(w) ==
    LET w1 == NewMesh(w, "head", "headGeometry", w.materials.blackFurMaterial)
        w2 == ScaleSet(w1, "head", 10000, 9000, 9000)
        w3 == PositionSet(w2, "head", 0, 9500, 12000)
        w4 == GroupAdd(w3, "head")
        w5 == NewMesh(w4, "snout", "snoutGeometry", w.materials.whiteFurMaterial)
        w6 == ScaleSet(w5, "snout", 11000, 8000, 10000)
        w7 == PositionSet(w6, "snout", 0, 8200, 14800)
        w8 == GroupAdd(w7, "snout")
        w9 == NewMesh(w8, "blaze", "blazeGeometry", w.materials.whiteFurMaterial)
        w10 == PositionSet(w9, "blaze", 0, 11000, 14500)
        w11 == RotationSet(w10, "blaze", 1, -5000)
        w12 == ScaleSet(w11, "blaze", 10000, 10000, 5000)
    IN  GroupAdd(w12, "blaze")

\* createEars: left ear and left inner ear, then their clones on the right.
CreateEars(w) ==
    LET w1 == NewMesh(w, "leftEar", "leftEarGeometry", w.materials.blackFurMaterial)
        w2 == PositionSet(w1, "leftEar", -2500, 12500, 11500)
        w3 == RotationSet(w2, "leftEar", 3, -4000)
        w4 == RotationSet(w3, "leftEar", 1, 2000)
        w5 == GroupAdd(w4, "leftEar")
        w6 == NewMesh(w5, "leftInnerEar", "innerEarGeometry", w.materials.innerEarMaterial)
        w7 == PositionSet(w6, "leftInnerEar", -2500, 12500, 12200)
        w8 == RotationSet(w7, "leftInnerEar", 3, -4000)
        w9 == RotationSet(w8, "leftInnerEar", 1, 2000)
        w10 == GroupAdd(w9, "leftInnerEar")
        w11 == Clone(w10, "leftEar", "rightEar")
        w12 == PositionSet(w11, "rightEar", 2500, 12500, 11500)
        w13 == RotationSet(w12, "rightEar", 3, 4000)
        w14 == GroupAdd(w13, "rightEar")
        w15 == Clone(w14, "leftInnerEar", "rightInnerEar")
        w16 == PositionSet(w15, "rightInnerEar", 2500, 12500, 12200)
        w17 == RotationSet(w16, "rightInnerEar", 3, 4000)
    IN  GroupAdd(w17, "rightInnerEar")

\* createPaws: four white paws on one shared geometry.
CreatePaws(w) ==
    LET positions == << <<-3500, 500, 8000>>, <<3500, 500, 8000>>,
                        <<-4000, 500, -3000>>, <<4000, 500, -3000>> >>
        names == <<"pawFrontLeft", "pawFrontRight", "pawBackLeft", "pawBackRight">>
        Paw(v, i) ==
            LET v1 == NewMesh(v, names[i], "pawGeometry", w.materials.whiteFurMaterial)
                v2 == PositionSet(v1, names[i], positions[i][1], positions[i][2],
                                  positions[i][3])
            IN  GroupAdd(v2, names[i])
    IN  Paw(Paw(Paw(Paw(w, 1), 2), 3), 4)

\* createLegs: front and back left legs (black tubes), their clones on the right, the paws.
CreateLegs(w) ==
    LET legPointsFront == << <<0, 0, 0>>, <<0, -2500, 500>>, <<0, -4500, 0>> >>
        legGeometryFront == CreateSplineTube(legPointsFront, 900)
        w1 == NewMesh(w, "frontLeftLeg", legGeometryFront, w.materials.blackFurMaterial)
        w2 == PositionSet(w1, "frontLeftLeg", -3500, 5500, 8000)
        w3 == GroupAdd(w2, "frontLeftLeg")
        w4 == Clone(w3, "frontLeftLeg", "frontRightLeg")
        w5 == PositionSet(w4, "frontRightLeg", 3500, 5500, 8000)
        w6 == GroupAdd(w5, "frontRightLeg")
        legPointsBack == << <<0, 0, 0>>, <<0, -2000, -1000>>, <<0, -4000, 0>> >>
        legGeometryBack == CreateSplineTube(legPointsBack, 1100)
        w7 == NewMesh(w6, "backLeftLeg", legGeometryBack, w.materials.blackFurMaterial)
        w8 == PositionSet(w7, "backLeftLeg", -4000, 4500, -4000)
        w9 == RotationSet(w8, "backLeftLeg", 1, -3000)
        w10 == GroupAdd(w9, "backLeftLeg")
        w11 == Clone(w10, "backLeftLeg", "backRightLeg")
        w12 == PositionSet(w11, "backRightLeg", 4000, 4500, -4000)
        w13 == GroupAdd(w12, "backRightLeg")
    IN  CreatePaws(w13)

\* createTail: the tail (black tube, kept as this.tail) and its white tip.
CreateTail(w) ==
    LET tailPoints == << <<0, 5000, -11000>>, <<0, 7000, -16000>>,
                         <<2000, 11000, -19000>>, <<4000, 15000, -20000>> >>
        tailGeometry == CreateSplineTube(tailPoints, 1200)
        w1 == NewMesh(w, "tail", tailGeometry, w.materials.blackFurMaterial)
        w2 == [GroupAdd(w1, "tail") EXCEPT !.tail = "tail"]
        w3 == NewMesh(w2, "tip", "tipGeometry", w.materials.whiteFurMaterial)
        w4 == PositionSet(w3, "tip", 4000, 15000, -20000)
    IN  GroupAdd(w4, "tip")

\* createEyes: left eye (eye material), left pupil (a material made here), their clones.
CreateEyes(w) ==
    LET w1 == NewMesh(w, "leftEye", "eyeGeometry", w.materials.eyeMaterial)
        w2 == PositionSet(w1, "leftEye", -1600, 9500, 14800)
        w3 == RotationSet(w2, "leftEye", 2, 2000)
        w4 == GroupAdd(w3, "leftEye")
        w5 == NewMaterial(w4, 0)           \* pupilMaterial 0x000000
        pupilMaterial == Len(w4.mats) + 1
        w6 == NewMesh(w5, "leftPupil", "pupilGeometry", pupilMaterial)
        w7 == PositionSet(w6, "leftPupil", -1600, 9500, 15600)
        w8 == ScaleSet(w7, "leftPupil", 8000, 12000, 5000)
        w9 == GroupAdd(w8, "leftPupil")
        w10 == Clone(w9, "leftEye", "rightEye")
        w11 == PositionSet(w10, "rightEye", 1600, 9500, 14800)
        w12 == RotationSet(w11, "rightEye", 2, -2000)
        w13 == GroupAdd(w12, "rightEye")
        w14 == Clone(w13, "leftPupil", "rightPupil")
        w15 == PositionSet(w14, "rightPupil", 1600, 9500, 15600)
    IN  GroupAdd(w15, "rightPupil")

\* Variant of createNose that makes its material on the spot, as createEyes does for the pupil.
CreateNoseOwnMaterial(w) ==
    LET w0 == NewMaterial(w, 16758465)
        w1 == NewMesh(w0, "nose", "noseGeometry", Len(w.mats) + 1)
        w2 == ScaleSet(w1, "nose", 10000, 8000, 5000)
        w3 == PositionSet(w2, "nose", 0, 8800, 16300)
    IN  GroupAdd(w3, "nose")

\* createNose
CreateNose(w) ==
    LET w1 == NewMesh(w, "nose", "noseGeometry", w.materials.noseMaterial)
        w2 == ScaleSet(w1, "nose", 10000, 8000, 5000)
        w3 == PositionSet(w2, "nose", 0, 8800, 16300)
    IN  GroupAdd(w3, "nose")

\* createWhiskers: one batch of line segments with the whisker material.
CreateWhiskers(w) ==
    GroupAdd(NewMesh(w, "whiskers", "whiskerGeometry", w.materials.whiskerMaterial),
             "whiskers")

\* addFurDetails: the generated normal map is set on the two fur materials.
AddFurDetails(w) ==
    [w EXCEPT !.mats[w.materials.blackFurMaterial].normalMap = TRUE,
              !.mats[w.materials.whiteFurMaterial].normalMap = TRUE]

\* buildCat: the regions in their fixed order.
BuildCat(w) ==
    AddFurDetails(CreateWhiskers(CreateNose(CreateEyes(CreateTail(
        CreateLegs(CreateEars(CreateHead(CreateBody(w)))))))))

\* new CatModel()
NewCatModel == BuildCat(CreateMaterials(EmptyCat))

\* ------------------------------------------------------ CatModel methods
\* Variant of animateIdle that adds the breathing offset to the current scale.
AnimateIdleDrift(w, time) ==
    LET breathe == Mul(Sin(4 * time), 100)
        w1 == IF w.body # "undefined"
              THEN [w EXCEPT !.xforms[w.mesh[w.body].xform].scale[2] = @ + breathe]
              ELSE w
    IN  IF w1.tail # "undefined"
        THEN [w1 EXCEPT
                !.xforms[w.mesh[w.tail].xform].rotation[1] = Mul(Sin(3 * time), 800),
                !.xforms[w.mesh[w.tail].xform].rotation[2] = Mul(Cos(2 * time), 500)]
        ELSE w1

\* Variant of animateIdle with the breathing amplitude 0.02.
AnimateIdleWide(w, time) ==
    LET breathe == Mul(Sin(4 * time), 200)
        w1 == IF w.body # "undefined"
              THEN [w EXCEPT !.xforms[w.mesh[w.body].xform].scale[2] = 8000 + breathe]
              ELSE w
    IN  IF w1.tail # "undefined"
        THEN [w1 EXCEPT
                !.xforms[w.mesh[w.tail].xform].rotation[1] = Mul(Sin(3 * time), 800),
                !.xforms[w.mesh[w.tail].xform].rotation[2] = Mul(Cos(2 * time), 500)]
        ELSE w1

\* Variant of animateIdle that also puts the body back at its standing height.
AnimateIdleResetsHeight(w, time) ==
    LET breathe == Mul(Sin(4 * time), 100)
        w1 == IF w.body # "undefined"
              THEN [w EXCEPT !.xforms[w.mesh[w.body].xform].scale[2] = 8000 + breathe,
                             !.xforms[w.mesh[w.body].xform].position[2] = 6000]
              ELSE w
    IN  IF w1.tail # "undefined"
        THEN [w1 EXCEPT
                !.xforms[w.mesh[w.tail].xform].rotation[1] = Mul(Sin(3 * time), 800),
                !.xforms[w.mesh[w.tail].xform].rotation[2] = Mul(Cos(2 * time), 500)]
        ELSE w1

\* animateIdle(time): breathing on body.scale.y, sway on tail.rotation.x and .y.
AnimateIdle(w, time) ==
    LET breathe == Mul(Sin(4 * time), 100)
        w1 == IF w.body # "undefined"
              THEN [w EXCEPT !.xforms[w.mesh[w.body].xform].scale[2] = 8000 + breathe]
              ELSE w
    IN  IF w1.tail # "undefined"
        THEN [w1 EXCEPT
                !.xforms[w.mesh[w.tail].xform].rotation[1] = Mul(Sin(3 * time), 800),
                !.xforms[w.mesh[w.tail].xform].rotation[2] = Mul(Cos(2 * time), 500)]
        ELSE w1

\* Variant of animateSit that lowers the body by 0.1 instead of setting its height.
AnimateSitRelative(w) ==
    IF w.body # "undefined"
    THEN [w EXCEPT !.xforms[w.mesh[w.body].xform].position[2] = @ - 1000,
                   !.xforms[w.mesh[w.body].xform].rotation[1] = 2500]
    ELSE w

\* animateSit(): the sitting constants on body.position.y and body.rotation.x.
AnimateSit(w) ==
    IF w.body # "undefined"
    THEN [w EXCEPT !.xforms[w.mesh[w.body].xform].position[2] = 5000,
                   !.xforms[w.mesh[w.body].xform].rotation[1] = 2500]
    ELSE w

\* Variant of animateStand that also puts body.scale.y back to its construction value.
AnimateStandResetsScale(w) ==
    IF w.body # "undefined"
    THEN [w EXCEPT !.xforms[w.mesh[w.body].xform].position[2] = 6000,
                   !.xforms[w.mesh[w.body].xform].rotation[1] = 0,
                   !.xforms[w.mesh[w.body].xform].scale[2] = 8000]
    ELSE w

\* animateStand(): the standing constants on body.position.y and body.rotation.x.
AnimateStand(w) ==
    IF w.body # "undefined"
    THEN [w EXCEPT !.xforms[w.mesh[w.body].xform].position[2] = 6000,
                   !.xforms[w.mesh[w.body].xform].rotation[1] = 0]
    ELSE w

\* Variant of setFurColor that recolors the white fur as well.
SetFurColorBoth(w, color) ==
    [w EXCEPT !.mats[w.materials.blackFurMaterial].color = SetHex(color),
              !.mats[w.materials.whiteFurMaterial].color = SetHex(color)]

\* setFurColor(color): the black fur material's color, in place.
SetFurColor(w, color) ==
    [w EXCEPT !.mats[w.materials.blackFurMaterial].color = SetHex(color)]

\* Variant of toggleWireframe that sets the flag on every material.
ToggleWireframeAll(w, enabled) ==
    [w EXCEPT !.mats = [m \in DOMAIN w.mats |-> [w.mats[m] EXCEPT !.wireframe = enabled]]]

\* toggleWireframe(enabled): the flag of the two fur materials.
ToggleWireframe(w, enabled) ==
    [w EXCEPT !.mats[w.materials.blackFurMaterial].wireframe = enabled,
              !.mats[w.materials.whiteFurMaterial].wireframe = enabled]

\* ------------------------------------------------------ CatViewer pieces
\* The pose values the animation select can deliver; "walk" stands for any unrecognized one.
PoseValues == {"idle", "sit", "stand", "walk"}

\* The values of the color input, as the six hex digits after '#'.
ColorInputs == { <<1, 10, 1, 10, 1, 10>>, <<15, 15, 8, 8, 0, 0>>, <<3, 3, 6, 6, 9, 9>> }

\* parseInt(color.replace('#', '0x')): the number written by the hex digits.
RECURSIVE ParseInt(_)
ParseInt(digits) ==
    IF digits = << >> THEN 0
    ELSE 16 * ParseInt(SubSeq(digits, 1, Len(digits) - 1)) + digits[Len(digits)]

\* Colors handed to setFurColor.
Colors == { ParseInt(d) : d \in ColorInputs }

\* Elapsed times handed to animateIdle, in ticks of pi/12 seconds.
Times == -MaxT .. MaxT

\* Variant of updateAnimation whose default branch sits.
UpdateAnimationDefaultSit(w, mode) ==
    CASE mode = "sit" -> AnimateSit(w)
      [] mode = "stand" -> AnimateStand(w)
      [] OTHER -> AnimateSit(w)

\* updateAnimation(): the switch on currentAnimation.
UpdateAnimation(w, mode) ==
    CASE mode = "sit" -> AnimateSit(w)
      [] mode = "stand" -> AnimateStand(w)
      [] OTHER -> AnimateStand(w)

\* ---------------------------------------------------------------- state
VARIABLES
    cat,               \* the CatModel object
    currentAnimation,  \* CatViewer.currentAnimation
    clock,             \* performance.now() * 0.001, in ticks
    running,           \* the CatViewer constructor has returned
    calls,             \* history: the last three CatModel methods called
    invoked,           \* history: the CatModel methods called by the last step
    handler,           \* history: the viewer handler that ran last
    lastT,             \* history: argument of the last animateIdle call
    prevT,             \* history: argument of the animateIdle call before that
                       \* (the history arguments are << >> before the first call, <<arg>> after)
    lastWire,          \* history: argument of the last toggleWireframe call
    lastColor,         \* history: argument of the last setFurColor call
    tube               \* a call of createSplineTube: its arguments, and its result once made

vars == <<cat, currentAnimation, clock, running, calls, invoked, handler,
          lastT, prevT, lastWire, lastColor, tube>>

viewerVars == <<currentAnimation, clock, running, handler>>

\* The trail of calls after one more call of method m.
Trail(m) == <<calls[2], calls[3], m>>

\* The control points offered to createSplineTube: sequences of at most MaxPoints points
\* taken from the front leg's curve, repetitions (duplicate points) included.
ControlPointLists ==
    UNION { [1 .. n -> { <<0, 0, 0>>, <<0, -2500, 500>>, <<0, -4500, 0>> }] :
                n \in 0 .. MaxPoints }

\* The radii offered to createSplineTube: the ones of the legs and the tail.
Radii == {900, 1100, 1200}

\* A createSplineTube call that has not been made: the front legs' arguments.
FrontLegTube ==
    [points |-> << <<0, 0, 0>>, <<0, -2500, 500>>, <<0, -4500, 0>> >>, radius |-> 900,
     called |-> FALSE, geometry |-> [curve |-> << >>, radius |-> 0, error |-> FALSE]]

\* State after new CatModel(), before any method is called.
Init ==
    /\ tube = FrontLegTube
    /\ cat = NewCatModel
    /\ currentAnimation = "idle"
    /\ clock = 0
    /\ running = FALSE
    /\ calls = <<"none", "none", "none">>
    /\ invoked = {}
    /\ handler = "none"
    /\ lastT = << >>
    /\ prevT = << >>
    /\ lastWire = << >>
    /\ lastColor = << >>

\* ------------------------------------------- calls on the CatModel object
CallAnimateIdle(t) ==
    /\ cat' = AnimateIdle(cat, t)
    /\ calls' = Trail("animateIdle")
    /\ invoked' = {"animateIdle"}
    /\ lastT' = <<t>>
    /\ prevT' = lastT
    /\ UNCHANGED <<tube, viewerVars, lastWire, lastColor>>

CallAnimateSit ==
    /\ cat' = AnimateSit(cat)
    /\ calls' = Trail("animateSit")
    /\ invoked' = {"animateSit"}
    /\ UNCHANGED <<tube, viewerVars, lastT, prevT, lastWire, lastColor>>

CallAnimateStand ==
    /\ cat' = AnimateStand(cat)
    /\ calls' = Trail("animateStand")
    /\ invoked' = {"animateStand"}
    /\ UNCHANGED <<tube, viewerVars, lastT, prevT, lastWire, lastColor>>

CallSetFurColor(c) ==
    /\ cat' = SetFurColor(cat, c)
    /\ calls' = Trail("setFurColor")
    /\ invoked' = {"setFurColor"}
    /\ lastColor' = <<c>>
    /\ UNCHANGED <<tube, viewerVars, lastT, prevT, lastWire>>

CallToggleWireframe(enabled) ==
    /\ cat' = ToggleWireframe(cat, enabled)
    /\ calls' = Trail("toggleWireframe")
    /\ invoked' = {"toggleWireframe"}
    /\ lastWire' = <<enabled>>
    /\ UNCHANGED <<tube, viewerVars, lastT, prevT, lastColor>>

Next ==
    \/ \E t \in Times : CallAnimateIdle(t)
    \/ CallAnimateSit
    \/ CallAnimateStand
    \/ \E c \in Colors : CallSetFurColor(c)
    \/ \E enabled \in BOOLEAN : CallToggleWireframe(enabled)

\* Any sequence of method calls on a constructed CatModel.
Spec == Init /\ [][Next]_vars

\* --------------------------------------------------- the viewer's handlers
\* Variant of animate() that calls animateIdle whatever the mode.
AnimateAlways ==
    /\ \E time \in clock .. MaxClock :
        /\ clock' = time
        /\ cat' = AnimateIdle(cat, time)
        /\ calls' = Trail("animateIdle")
        /\ invoked' = {"animateIdle"}
        /\ lastT' = <<time>>
        /\ prevT' = lastT
    /\ running' = TRUE
    /\ handler' = "animate"
    /\ UNCHANGED <<tube, currentAnimation, lastWire, lastColor>>

\* animate(): one frame. The first one is run by the constructor, the later ones by
\* requestAnimationFrame; performance.now() never decreases.
Animate ==
    /\ \E time \in clock .. MaxClock :
        /\ clock' = time
        /\ IF currentAnimation = "idle"
           THEN /\ cat' = AnimateIdle(cat, time)
                /\ calls' = Trail("animateIdle")
                /\ invoked' = {"animateIdle"}
                /\ lastT' = <<time>>
                /\ prevT' = lastT
           ELSE /\ invoked' = {}
                /\ UNCHANGED <<cat, calls, lastT, prevT>>
    /\ running' = TRUE
    /\ handler' = "animate"
    /\ UNCHANGED <<tube, currentAnimation, lastWire, lastColor>>

\* Variant of the animation 'change' handler that stores the value and applies no pose.
OnAnimationChangeNoUpdate(value) ==
    /\ running
    /\ currentAnimation' = value
    /\ invoked' = {}
    /\ handler' = "animationChange"
    /\ UNCHANGED <<cat, calls, clock, running, lastT, prevT, lastWire, lastColor, tube>>

\* 'change' on the animation select: store the value, then updateAnimation().
OnAnimationChange(value) ==
    /\ running
    /\ currentAnimation' = value
    /\ cat' = UpdateAnimation(cat, value)
    /\ calls' = Trail(IF value = "sit" THEN "animateSit" ELSE "animateStand")
    /\ invoked' = {IF value = "sit" THEN "animateSit" ELSE "animateStand"}
    /\ handler' = "animationChange"
    /\ UNCHANGED <<tube, clock, running, lastT, prevT, lastWire, lastColor>>

\* 'input' on the fur color picker.
OnFurColorInput(digits) ==
    /\ running
    /\ cat' = SetFurColor(cat, ParseInt(digits))
    /\ calls' = Trail("setFurColor")
    /\ invoked' = {"setFurColor"}
    /\ lastColor' = <<ParseInt(digits)>>
    /\ handler' = "furColorInput"
    /\ UNCHANGED <<tube, currentAnimation, clock, running, lastT, prevT, lastWire>>

\* 'change' on the wireframe checkbox.
OnWireframeChange(checked) ==
    /\ running
    /\ cat' = ToggleWireframe(cat, checked)
    /\ calls' = Trail("toggleWireframe")
    /\ invoked' = {"toggleWireframe"}
    /\ lastWire' = <<checked>>
    /\ handler' = "wireframeChange"
    /\ UNCHANGED <<tube, currentAnimation, clock, running, lastT, prevT, lastColor>>

ViewerNext ==
    \/ Animate
    \/ \E value \in PoseValues : OnAnimationChange(value)
    \/ \E digits \in ColorInputs : OnFurColorInput(digits)
    \/ \E checked \in BOOLEAN : OnWireframeChange(checked)

\* new CatViewer() and every interleaving of frames and control events after it.
ViewerSpec == Init /\ [][ViewerNext]_vars

\* ------------------------------------------------- createSplineTube alone
\* Some sequence of control points and some radius, before the call.
TubeInit ==
    /\ \E points \in ControlPointLists, radius \in Radii :
          tube = [FrontLegTube EXCEPT !.points = points, !.radius = radius]
    /\ cat = NewCatModel
    /\ currentAnimation = "idle"
    /\ clock = 0
    /\ running = FALSE
    /\ calls = <<"none", "none", "none">>
    /\ invoked = {}
    /\ handler = "none"
    /\ lastT = << >>
    /\ prevT = << >>
    /\ lastWire = << >>
    /\ lastColor = << >>

\* The call createSplineTube(points, radius).
CallCreateSplineTube ==
    /\ ~tube.called
    /\ tube' = [tube EXCEPT !.called = TRUE,
                            !.geometry = CreateSplineTube(tube.points, tube.radius)]
    /\ UNCHANGED <<cat, viewerVars, calls, invoked, lastT, prevT, lastWire, lastColor>>

TubeNext == CallCreateSplineTube

\* createSplineTube on any sequence of control points.
TubeSpec == TubeInit /\ [][TubeNext]_vars

\* ---------------------------------------------------------------- claims
\* The segments by the role of their material.
BlackFurSegments ==
    {"body", "head", "leftEar", "rightEar", "frontLeftLeg", "frontRightLeg",
     "backLeftLeg", "backRightLeg", "tail"}

WhiteFurSegments ==
    {"chest", "snout", "blaze", "pawFrontLeft", "pawFrontRight", "pawBackLeft",
     "pawBackRight", "tip"}

\* The segments in the figure's group.
Segments == { cat.group[i] : i \in 1 .. Len(cat.group) }

\* The materials of the MaterialSet (this.materials).
MaterialSet == { cat.materials[r] : r \in DOMAIN cat.materials }

\* The bilateral pairs built by clone(): <<original, twin>>.
MirrorPairs ==
    { <<"leftEar", "rightEar">>, <<"leftInnerEar", "rightInnerEar">>,
      <<"frontLeftLeg", "frontRightLeg">>, <<"backLeftLeg", "backRightLeg">>,
      <<"leftEye", "rightEye">>, <<"leftPupil", "rightPupil">> }

\* What animateIdle writes: body.scale.y, tail.rotation.x, tail.rotation.y.
IdleView(w) ==
    <<Xf(w, "body").scale[2], Xf(w, "tail").rotation[1], Xf(w, "tail").rotation[2]>>

\* C1: from every reachable figure state, animateIdle(t1) then animateIdle(t2) with
\* t1 < t2 leaves body.scale.y and tail.rotation.x/.y as animateIdle(t2) alone does; and
\* right after a call animateIdle(t) these values are the ones t gives on a fresh
\* figure, whatever was called before (absolute values, no drift).
C1_IdleNoDrift ==
    /\ \A t1, t2 \in Times :
          t1 < t2 => IdleView(AnimateIdle(AnimateIdle(cat, t1), t2))
                        = IdleView(AnimateIdle(cat, t2))
    /\ calls[3] = "animateIdle" =>
          IdleView(cat) = IdleView(AnimateIdle(NewCatModel, lastT[1]))

\* C1 witness: two animateIdle calls in a row, the first with the smaller time, and the
\* two times give different values.
C1_Witness ==
    /\ calls[2] = "animateIdle" /\ calls[3] = "animateIdle"
    /\ Len(prevT) = 1 /\ Len(lastT) = 1 /\ prevT[1] < lastT[1]
    /\ IdleView(AnimateIdle(NewCatModel, prevT[1])) # IdleView(cat)
    /\ IdleView(cat) # IdleView(NewCatModel)

\* C2: after any sequence of calls, body.scale.y is within
\* [baseScale - amplitude, baseScale + amplitude] = [0.79, 0.81].
C2_BodyScaleInRange ==
    /\ 8000 - 100 <= Xf(cat, "body").scale[2]
    /\ Xf(cat, "body").scale[2] <= 8000 + 100

\* C2 witness: an animateIdle call has put body.scale.y on the upper end of the range.
C2_Witness ==
    /\ "animateIdle" \in invoked
    /\ Xf(cat, "body").scale[2] = 8000 + 100

\* C3: from every reachable state sit; stand; sit gives the state of a single sit, sit
\* and stand are idempotent, and a figure that has just gone through sit; stand; sit
\* is the figure a single sit leaves.
C3_SitStandSit ==
    /\ AnimateSit(AnimateStand(AnimateSit(cat))) = AnimateSit(cat)
    /\ AnimateSit(AnimateSit(cat)) = AnimateSit(cat)
    /\ AnimateStand(AnimateStand(cat)) = AnimateStand(cat)
    /\ calls[3] = "animateSit" => AnimateSit(cat) = cat
    /\ calls[3] = "animateStand" => AnimateStand(cat) = cat

\* C3 witness: the last three calls were sit, stand, sit and the body sits.
C3_Witness ==
    /\ calls = <<"animateSit", "animateStand", "animateSit">>
    /\ Xf(cat, "body").position[2] = 5000
    /\ Xf(cat, "body").rotation[1] = 2500

\* C4: a setFurColor(c) call makes c the color of every black-fur segment, clones
\* included, and leaves the color of every other segment as it was.
C4_FurColorFrame ==
    [][ invoked' = {"setFurColor"} =>
          /\ \A s \in BlackFurSegments : GetHex(Mat(cat', s).color) = lastColor'[1]
          /\ \A s \in Segments \ BlackFurSegments : Mat(cat', s).color = Mat(cat, s).color
      ]_vars

\* C4 witness: setFurColor has just given a cloned black-fur segment a color other than
\* the one it was built with.
C4_Witness ==
    /\ invoked = {"setFurColor"}
    /\ GetHex(Mat(cat, "rightEar").color) = lastColor[1]
    /\ Mat(cat, "rightEar").color # Mat(NewCatModel, "rightEar").color
    /\ Mat(cat, "chest").color = Mat(NewCatModel, "chest").color

\* C5: once toggleWireframe has been called, the black-fur and white-fur materials'
\* wireframe flags equal its last argument; the flag of every other material is the
\* one it was built with.
C5_WireframeFrame ==
    /\ Len(lastWire) = 1 =>
          /\ cat.mats[cat.materials.blackFurMaterial].wireframe = lastWire[1]
          /\ cat.mats[cat.materials.whiteFurMaterial].wireframe = lastWire[1]
    /\ \A m \in DOMAIN cat.mats :
          m \notin {cat.materials.blackFurMaterial, cat.materials.whiteFurMaterial}
             => cat.mats[m].wireframe = NewCatModel.mats[m].wireframe

\* C5 witness: toggleWireframe(true) has just set both fur flags.
C5_Witness ==
    /\ invoked = {"toggleWireframe"}
    /\ lastWire = <<TRUE>>
    /\ cat.mats[cat.materials.blackFurMaterial].wireframe
    /\ cat.mats[cat.materials.whiteFurMaterial].wireframe
    /\ ~cat.mats[cat.materials.eyeMaterial].wireframe

\* C6: the six roles name six distinct material instances, and every black-fur segment
\* holds the black-fur instance, every white-fur segment the white-fur instance, in
\* every state.
C6_OneInstancePerRole ==
    /\ DOMAIN cat.materials = {"blackFurMaterial", "whiteFurMaterial", "eyeMaterial",
                               "noseMaterial", "innerEarMaterial", "whiskerMaterial"}
    /\ Cardinality(MaterialSet) = 6
    /\ MaterialSet \subseteq DOMAIN cat.mats
    /\ \A s \in BlackFurSegments :
          s \in Segments /\ cat.mesh[s].material = cat.materials.blackFurMaterial
    /\ \A s \in WhiteFurSegments :
          s \in Segments /\ cat.mesh[s].material = cat.materials.whiteFurMaterial

\* C6 witness: the figure is built and in use, and a cloned leg holds the instance
\* the body holds.
C6_Witness ==
    /\ calls[3] # "none"
    /\ cat.mesh["backRightLeg"].material = cat.mesh["body"].material
    /\ cat.mesh["pawBackRight"].material = cat.mesh["chest"].material

\* C7 as stated: every segment of the group holds one of the six MaterialSet materials.
C7_AllInMaterialSet ==
    \A s \in Segments : cat.mesh[s].material \in MaterialSet

\* C7 amended: every segment other than the two pupils holds one of the six MaterialSet
\* materials; the two pupils hold one seventh material, which is none of the six.
C7_AllButPupilsInMaterialSet ==
    /\ \A s \in Segments \ {"leftPupil", "rightPupil"} : cat.mesh[s].material \in MaterialSet
    /\ cat.mesh["leftPupil"].material \notin MaterialSet
    /\ cat.mesh["rightPupil"].material = cat.mesh["leftPupil"].material
    /\ Len(cat.mats) = 7

\* C7 witness: the built figure has its 25 segments, the pupils with the seventh material.
C7_Witness ==
    /\ Cardinality(Segments) = 25
    /\ {"leftPupil", "rightPupil", "nose", "whiskers"} \subseteq Segments
    /\ cat.mesh["leftPupil"].material = 7

\* C8: for every cloned pair the twin's position is the original's with x negated, its
\* rotation the original's with y and z negated and x equal; the twin has a transform
\* of its own, so that writing the twin's position, rotation or scale leaves the
\* original's transform as it is.
C8_MirrorPairs ==
    \A p \in MirrorPairs :
        LET a == Xf(cat, p[1])
            b == Xf(cat, p[2])
        IN  /\ b.position = <<-a.position[1], a.position[2], a.position[3]>>
            /\ b.rotation = <<a.rotation[1], -a.rotation[2], -a.rotation[3]>>
            /\ cat.mesh[p[1]].xform # cat.mesh[p[2]].xform
            /\ Xf(PositionSet(cat, p[2], 1, 2, 3), p[1]) = a
            /\ Xf(ScaleSet(cat, p[2], 1, 2, 3), p[1]) = a
            /\ \A axis \in 1 .. 3 : Xf(RotationSet(cat, p[2], axis, 1), p[1]) = a

\* C8 witness: the twins are in the group, off the mirror plane and turned the other way.
C8_Witness ==
    /\ \A p \in MirrorPairs : p[2] \in Segments
    /\ Xf(cat, "leftEar").position[1] = -2500 /\ Xf(cat, "rightEar").position[1] = 2500
    /\ Xf(cat, "leftEar").rotation[3] = -4000 /\ Xf(cat, "rightEar").rotation[3] = 4000
    /\ Xf(cat, "leftEye").rotation[2] = 2000 /\ Xf(cat, "rightEye").rotation[2] = -2000

\* C9: a pose switch calls no animateIdle and leaves what animateIdle writes alone; a
\* frame calls animateIdle exactly when the mode is idle, and a frame in mode sit or
\* stand leaves body.scale.y and the tail rotation unchanged.
C9_IdleOnlyInIdleFrames ==
    [][ /\ handler' = "animationChange" =>
              "animateIdle" \notin invoked' /\ IdleView(cat') = IdleView(cat)
        /\ handler' = "animate" =>
              /\ ("animateIdle" \in invoked') <=> (currentAnimation = "idle")
              /\ currentAnimation = "idle" =>
                    IdleView(cat') = IdleView(AnimateIdle(cat, clock'))
              /\ currentAnimation \in {"sit", "stand"} =>
                    IdleView(cat') = IdleView(cat)
      ]_vars

\* C9 witness: a frame has just run in mode sit, after idle frames had moved the figure.
C9_Witness ==
    /\ handler = "animate"
    /\ currentAnimation = "sit"
    /\ invoked = {}
    /\ IdleView(cat) # IdleView(NewCatModel)

\* C10: selecting a pose value other than sit (idle, stand, or an unrecognized one)
\* puts the body in the standing base pose, position.y = 0.6 and rotation.x = 0; a
\* frame in mode idle keeps that base pose and writes the breathing and the sway.
C10_NonSitStands ==
    [][ /\ (handler' = "animationChange" /\ currentAnimation' # "sit") =>
              /\ Xf(cat', "body").position[2] = 6000
              /\ Xf(cat', "body").rotation[1] = 0
        /\ (handler' = "animate" /\ currentAnimation = "idle") =>
              /\ Xf(cat', "body").position[2] = 6000
              /\ Xf(cat', "body").rotation[1] = 0
              /\ IdleView(cat') = IdleView(AnimateIdle(NewCatModel, clock'))
      ]_vars

\* C10 witness: after sit, idle was selected and a frame has breathed on the standing pose.
C10_Witness ==
    /\ calls = <<"animateSit", "animateStand", "animateIdle">>
    /\ handler = "animate"
    /\ currentAnimation = "idle"
    /\ Xf(cat, "body").position[2] = 6000
    /\ Xf(cat, "body").scale[2] # 8000

\* The figure w with body.scale.y and tail.rotation.x/.y taken from the figure v:
\* equal to v exactly when w and v differ in nothing but these three fields.
WithIdleViewOf(w, v) ==
    [w EXCEPT !.xforms[w.mesh["body"].xform].scale[2] = Xf(v, "body").scale[2],
              !.xforms[w.mesh["tail"].xform].rotation[1] = Xf(v, "tail").rotation[1],
              !.xforms[w.mesh["tail"].xform].rotation[2] = Xf(v, "tail").rotation[2]]

\* The figure w with body.position.y and body.rotation.x taken from the figure v.
WithBasePoseOf(w, v) ==
    [w EXCEPT !.xforms[w.mesh["body"].xform].position[2] = Xf(v, "body").position[2],
              !.xforms[w.mesh["body"].xform].rotation[1] = Xf(v, "body").rotation[1]]

\* C11: a call animateIdle(t), t negative included, changes nothing of the figure but
\* body.scale.y, tail.rotation.x and tail.rotation.y: body position and rotation, every
\* other transform, every material, the group and the mesh table stay as they were.
C11_IdleFrame ==
    [][ invoked' = {"animateIdle"} => WithIdleViewOf(cat', cat) = cat ]_vars

\* C11 witness: animateIdle has just run with a negative time on a sitting, recolored,
\* wireframed figure, and has moved the body scale and the tail.
C11_Witness ==
    /\ invoked = {"animateIdle"}
    /\ Len(lastT) = 1 /\ lastT[1] < 0
    /\ Xf(cat, "body").position[2] = 5000
    /\ Len(lastColor) = 1 /\ lastWire = <<TRUE>>
    /\ Xf(cat, "body").scale[2] # 8000
    /\ Xf(cat, "tail").rotation[1] # 0

\* C12 as stated: no call of createSplineTube ends in an error, whatever the control
\* points (fewer than two, repeated, collinear).
C12_TubeNeverFails ==
    tube.called => ~tube.geometry.error

\* C13: in every state of the viewer the body's base pose is the one of the selected
\* mode: position.y = 0.5 and rotation.x = 0.25 in mode sit, position.y = 0.6 and
\* rotation.x = 0 in any other mode, the initial idle included.
C13_PoseMatchesMode ==
    IF currentAnimation = "sit"
    THEN Xf(cat, "body").position[2] = 5000 /\ Xf(cat, "body").rotation[1] = 2500
    ELSE Xf(cat, "body").position[2] = 6000 /\ Xf(cat, "body").rotation[1] = 0

\* C13 witness: sit has been selected after a value other than sit, and a frame has run since.
C13_Witness ==
    /\ currentAnimation = "sit"
    /\ handler = "animate"
    /\ calls[2] = "animateStand" /\ calls[3] = "animateSit"
    /\ Xf(cat, "body").position[2] = 5000

\* C14: a call of animateSit or animateStand changes nothing of the figure but
\* body.position.y and body.rotation.x; and whenever the mode is not idle,
\* body.scale.y and the tail rotation are the values of the last animateIdle call.
C14_PoseFrame ==
    [][ /\ (invoked' = {"animateSit"} \/ invoked' = {"animateStand"}) =>
              WithBasePoseOf(cat', cat) = cat
        /\ currentAnimation' # "idle" =>
              IdleView(cat') = IdleView(AnimateIdle(NewCatModel, lastT'[1]))
      ]_vars

\* C14 witness: stand has just been selected and the figure keeps the breathing and the
\* sway of the last idle frame, which are not the construction values.
C14_Witness ==
    /\ currentAnimation = "stand"
    /\ invoked = {"animateStand"}
    /\ calls[2] = "animateIdle"
    /\ Xf(cat, "body").scale[2] # Xf(NewCatModel, "body").scale[2]
    /\ Xf(cat, "tail").rotation # Xf(NewCatModel, "tail").rotation

====
